---------------------------- MODULE Spec2Model ----------------------------
(***************************************************************************)
(* Model of packg/import_from_source.py.                                   *)
(*                                                                         *)
(* Three state machines share this module:                                 *)
(*   SpecCanon  - _ImportFromSourceChecker._get_module_should_import       *)
(*   SpecCheck  - _ImportFromSourceChecker (__init__, visit_ImportFrom)    *)
(*                driven by _apply_visitor                                 *)
(*   SpecEnum   - _recurse_modules (the generator, frame by frame)         *)
(*                                                                         *)
(* A Python str is a sequence of one-character strings, so that            *)
(* str.startswith, str.split(".") and ".".join are computed on characters, *)
(* as the code computes them: "p.q" is <<"p", ".", "q">>.                  *)
(***************************************************************************)
EXTENDS Integers, Sequences, FiniteSets, TLC

VARIABLES
    \* ---- SpecCanon
    cModule,      \* self._module of the checker
    cArg,         \* the module_to_import argument
    cOnce,        \* _get_module_should_import(cArg)
    cTwice,       \* _get_module_should_import(cOnce)
    cpc,          \* 0: nothing computed, 1: cOnce computed, 2: cTwice computed
    \* ---- SpecCheck
    argModule,    \* constructor argument: module
    argIsPkg,     \* what find_spec says of it in __init__ (is_pkg)
    selfModule,   \* self._module
    selfTop,      \* self._top_level_module
    selfIgnore,   \* self._module_list_to_ignore_not_found (None or a list)
    nStmts,       \* number of ImportFrom nodes in the parsed tree
    nVisited,     \* nodes handed to visit_ImportFrom so far
    warnedBefore, \* a warning was logged by an earlier visit_ImportFrom call
    status,       \* "running", "done", or the exception that left apply_visitor
    last,         \* what the last visit_ImportFrom call did
    \* ---- SpecEnum
    tree,         \* the modules on disk: name -> "pkg" | "mod"
    root,         \* recurse_modules' module_name argument
    ignoreTests,  \* ignore_tests
    packagesOnly, \* packages_only
    stack,        \* the generator's frames, innermost last
    yielded,      \* the names yielded so far, in order
    estatus       \* "running", "done", "ModuleNotFoundError"

canonVars == <<cModule, cArg, cOnce, cTwice, cpc>>
checkVars == <<argModule, argIsPkg, selfModule, selfTop, selfIgnore,
               nStmts, nVisited, warnedBefore, status, last>>
enumVars  == <<tree, root, ignoreTests, packagesOnly, stack, yielded, estatus>>
vars == <<canonVars, checkVars, enumVars>>

-----------------------------------------------------------------------------
(* Bounds *)

\* dotted components in a module name of the canonical-path check
MaxComps == 3
\* ImportFrom nodes in one parsed tree
MaxStmts == 2
\* modules on disk
MaxNodes == 4

-----------------------------------------------------------------------------
(* Python str operations *)

Dot == "."
Underscore == "_"

\* str.startswith(prefix)
StartsWith(s, prefix) ==
    /\ Len(prefix) <= Len(s)
    /\ SubSeq(s, 1, Len(prefix)) = prefix

\* index of the first "." of s at or after i, or 0
RECURSIVE FindDot(_, _)
FindDot(s, i) ==
    IF i > Len(s) THEN 0
    ELSE IF s[i] = Dot THEN i
    ELSE FindDot(s, i + 1)

\* str.split("."): "" splits to [""]
RECURSIVE Split(_)
Split(s) ==
    LET d == FindDot(s, 1) IN
    IF d = 0 THEN <<s>>
    ELSE <<SubSeq(s, 1, d - 1)>> \o Split(SubSeq(s, d + 1, Len(s)))

\* ".".join(components): [] joins to ""
RECURSIVE Join(_)
Join(comps) ==
    IF Len(comps) = 0 THEN <<>>
    ELSE IF Len(comps) = 1 THEN comps[1]
    ELSE comps[1] \o <<Dot>> \o Join(Tail(comps))

\* components[:-1]
AllButLast(comps) == SubSeq(comps, 1, Len(comps) - 1)

-----------------------------------------------------------------------------
(* _get_module_should_import *)

\* the loop of lines 174-179 from component i on, with `result` accumulated
RECURSIVE ShouldImportLoop(_, _, _, _)
ShouldImportLoop(module, comps, i, result) ==
    IF i > Len(comps) THEN result
    ELSE IF /\ StartsWith(comps[i], <<Underscore>>)
            /\ ~StartsWith(module, Join(result))
         THEN result
    ELSE ShouldImportLoop(module, comps, i + 1, Append(result, comps[i]))

\* a faulty variant: the last accumulated component is lost
GetModuleShouldImportDropLast(module, moduleToImport) ==
    Join(AllButLast(ShouldImportLoop(module, Split(moduleToImport), 1, <<>>)))

GetModuleShouldImport(module, moduleToImport) ==
    Join(ShouldImportLoop(module, Split(moduleToImport), 1, <<>>))



-----------------------------------------------------------------------------
(* _ImportFromSourceChecker.__init__ *)

\* Optional[List]: None, or a list of prefixes
NoIgnoreList == [given |-> FALSE, entries |-> <<>>]
IgnoreList(l) == [given |-> TRUE, entries |-> l]

\* self._module (line 94); isPkg is lines 88-92
InitModule(module, isPkg) ==
    IF isPkg THEN module ELSE Join(AllButLast(Split(module)))

\* self._top_level_module (line 95)
InitTopLevel(module) == Split(module)[1]

-----------------------------------------------------------------------------
(* _ImportFromSourceChecker.visit_ImportFrom *)

Star == <<"*">>
NameX == <<"X">>

\* Optional[str] of ast.ImportFrom.module
NoModule == [given |-> FALSE, name |-> <<>>]
SomeModule(name) == [given |-> TRUE, name |-> name]

\* a faulty variant: only deeper relative imports are rejected
IsParentRelativeStrict(level) == level > 2

\* line 101
IsParentRelative(level) == level >= 2

\* lines 108-117: module_to_import
ResolveModule(module, node) ==
    IF node.level = 0 THEN node.module.name
    ELSE IF ~node.module.given THEN module
    ELSE module \o <<Dot>> \o node.module.name

\* line 120
InScope(moduleToImport, topLevel) == StartsWith(moduleToImport, topLevel)

\* importlib.import_module(name) at line 126: an empty name is a ValueError,
\* a name with a leading dot and no package a TypeError; any other name
\* loads or is not found, as the environment (env.load) has it
ImportModule(name, env) ==
    IF name = <<>> THEN "ValueError"
    ELSE IF name[1] = Dot THEN "TypeError"
    ELSE env.load

\* a faulty variant: an ignore entry excuses only the module of that exact name
IgnoreNotFoundExact(ignore, moduleToImport) ==
    /\ ignore.given
    /\ \E k \in 1..Len(ignore.entries) : moduleToImport = ignore.entries[k]

\* lines 128-132: some entry of the ignore list is a prefix of the module
IgnoreNotFound(ignore, moduleToImport) ==
    /\ ignore.given
    /\ \E k \in 1..Len(ignore.entries) :
           StartsWith(moduleToImport, ignore.entries[k])

\* what the loaded module has under an alias name (lines 136-141):
\*   has: hasattr(module, alias.name); kind, defmod: the attribute's kind and
\*   __module__; sub: what import_module(f"{module_to_import}.{alias.name}")
\*   does when the attribute is missing
NoAttr == [has |-> FALSE, kind |-> "none", defmod |-> <<>>, sub |-> "none"]

\* a faulty variant: any import source the canonical path is a prefix of passes
IsMismatchPrefix(moduleToImport, shouldImportFrom) ==
    ~StartsWith(moduleToImport, shouldImportFrom)

\* line 156
IsMismatch(moduleToImport, shouldImportFrom) ==
    moduleToImport # shouldImportFrom

\* a faulty variant: a mismatch is an assertion failure, as it was before the
\* warning replaced it
OnMismatchAssert(acc, i, name, moduleToImport, shouldImportFrom) ==
    [acc EXCEPT !.raised = "AssertionError"]

\* lines 157-162: logging.warning(...)
OnMismatch(acc, i, name, moduleToImport, shouldImportFrom) ==
    [acc EXCEPT !.warned = Append(@, [alias  |-> i,
                                      name   |-> name,
                                      from   |-> moduleToImport,
                                      should |-> shouldImportFrom])]

\* line 146
IsClassOrCallable(kind) == kind \in {"class", "callable"}

Continue(acc) == [acc EXCEPT !.nproc = @ + 1]

\* lines 134-162: the loop over node.names from alias i on. "*" is never an
\* attribute of a module.
RECURSIVE AliasLoop(_, _, _, _, _, _)
AliasLoop(module, moduleToImport, names, i, attr, acc) ==
    IF i > Len(names) \/ acc.raised # "none" THEN acc
    ELSE IF names[i] = Star
         THEN AliasLoop(module, moduleToImport, names, i + 1, attr,
                        Continue(acc))
    ELSE IF ~attr.has /\ attr.sub # "ok"
         THEN [acc EXCEPT !.raised = attr.sub, !.consulted = TRUE]
    ELSE LET kind == IF attr.has THEN attr.kind ELSE "module"
             seen == [acc EXCEPT !.consulted = TRUE]
         IN IF ~IsClassOrCallable(kind)
            THEN AliasLoop(module, moduleToImport, names, i + 1, attr,
                           Continue(seen))
            ELSE LET should == GetModuleShouldImport(module, attr.defmod)
                     after == IF IsMismatch(moduleToImport, should)
                              THEN OnMismatch(seen, i, names[i],
                                              moduleToImport, should)
                              ELSE seen
                 IN AliasLoop(module, moduleToImport, names, i + 1, attr,
                              Continue(after))

\* what one visit_ImportFrom call did
Visited(node, resolved, m, load, attr, nproc, warned, raised, skipped) ==
    [level |-> node.level, names |-> node.names, resolved |-> resolved,
     m |-> m, load |-> load, attr |-> attr, nproc |-> nproc,
     warned |-> warned, raised |-> raised, skipped |-> skipped]

NoVisit ==
    [level |-> 0, names |-> <<>>, resolved |-> FALSE, m |-> <<>>,
     load |-> "none", attr |-> NoAttr, nproc |-> 0, warned |-> <<>>,
     raised |-> "none", skipped |-> "none"]

\* lines 98-162, with the environment's answers in env
VisitImportFrom(module, topLevel, ignore, node, env) ==
    IF IsParentRelative(node.level)
    THEN Visited(node, FALSE, <<>>, "none", NoAttr, 0, <<>>, "ValueError",
                 "none")
    ELSE
    LET m == ResolveModule(module, node) IN
    IF ~InScope(m, topLevel)
    THEN Visited(node, TRUE, m, "none", NoAttr, 0, <<>>, "none", "scope")
    ELSE
    LET load == ImportModule(m, env) IN
    IF load = "ModuleNotFoundError"
    THEN IF IgnoreNotFound(ignore, m)
         THEN Visited(node, TRUE, m, load, NoAttr, 0, <<>>, "none", "ignored")
         ELSE Visited(node, TRUE, m, load, NoAttr, 0, <<>>, load, "none")
    ELSE IF load # "ok"
    THEN Visited(node, TRUE, m, load, NoAttr, 0, <<>>, load, "none")
    ELSE
    LET acc == AliasLoop(module, m, node.names, 1, env.attr,
                         [nproc |-> 0, warned |-> <<>>, raised |-> "none",
                          consulted |-> FALSE])
    IN Visited(node, TRUE, m, load,
               IF acc.consulted THEN env.attr ELSE NoAttr,
               acc.nproc, acc.warned, acc.raised, "none")

-----------------------------------------------------------------------------
(* Each specification leaves the other machines idle *)

CheckIdle ==
    /\ argModule = <<>> /\ argIsPkg = FALSE /\ selfModule = <<>>
    /\ selfTop = <<>> /\ selfIgnore = NoIgnoreList
    /\ nStmts = 0 /\ nVisited = 0 /\ warnedBefore = FALSE
    /\ status = "idle" /\ last = NoVisit

EnumIdle ==
    /\ tree = <<>> /\ root = <<>> /\ ignoreTests = FALSE
    /\ packagesOnly = FALSE /\ stack = <<>> /\ yielded = <<>>
    /\ estatus = "idle"

CanonIdle ==
    /\ cModule = <<>> /\ cArg = <<>> /\ cOnce = <<>> /\ cTwice = <<>>
    /\ cpc = 0

-----------------------------------------------------------------------------
(* SpecCheck: apply_visitor(module, ImportFromSourceChecker(module, ignore)) *)

\* modules put under analysis, with what find_spec says of each: the package
\* p, its submodule p.q as a package and as a plain module, and the plain
\* top-level module q
CheckedModules ==
    { [name |-> <<"p">>, isPkg |-> TRUE],
      [name |-> <<"p", ".", "q">>, isPkg |-> TRUE],
      [name |-> <<"p", ".", "q">>, isPkg |-> FALSE],
      [name |-> <<"q">>, isPkg |-> FALSE] }

IgnoreLists ==
    { NoIgnoreList,
      IgnoreList(<<>>),
      IgnoreList(<< <<"p", ".", "q">> >>),
      IgnoreList(<< <<"q">>, <<"p", ".", "q">> >>) }

\* absolute import sources: the package, an unrelated module, a module whose
\* name the package's name is a string prefix of, a public submodule, a
\* private module below it
AbsModules ==
    { <<"p">>, <<"q">>, <<"p", "q">>, <<"p", ".", "q">>,
      <<"p", ".", "q", ".", "_", "p">> }

\* relative import sources: "from . import", "from .q import"
RelModules == { NoModule, SomeModule(<<"q">>) }

\* __module__ of the imported classes and callables
DefModules == { <<"p", ".", "q">>, <<"p", ".", "q", ".", "_", "p">> }

Levels == {0, 1, 2, 3}

AliasNames == { NameX, Star }

\* node.names: one name, the wildcard, and both orders of two
AliasLists ==
    { <<NameX>>, <<Star>>, <<NameX, NameX>>, <<NameX, Star>>,
      <<Star, NameX>>, <<Star, Star>> }

\* the ImportFrom nodes ast.parse can produce: level 0 has a module
Nodes ==
    { [level |-> lv, module |-> md, names |-> ns] :
        lv \in Levels,
        md \in { SomeModule(a) : a \in AbsModules } \cup RelModules,
        ns \in AliasLists }

ImportFromNodes ==
    { n \in Nodes :
        IF n.level = 0
        THEN n.module.given /\ n.module.name \in AbsModules
        ELSE n.module \in RelModules }

AttrOutcomes ==
    { [has |-> TRUE, kind |-> k, defmod |-> d, sub |-> "none"] :
        k \in {"class", "callable"}, d \in DefModules }
      \cup { [has |-> TRUE, kind |-> "other", defmod |-> <<>>,
              sub |-> "none"] }
      \cup { [has |-> FALSE, kind |-> "none", defmod |-> <<>>, sub |-> r] :
              r \in {"ok", "ModuleNotFoundError"} }

Envs == [load : {"ok", "ModuleNotFoundError"}, attr : AttrOutcomes]

CheckInit ==
    /\ \E c \in CheckedModules : argModule = c.name /\ argIsPkg = c.isPkg
    /\ selfModule = InitModule(argModule, argIsPkg)
    /\ selfTop = InitTopLevel(selfModule)
    /\ selfIgnore \in IgnoreLists
    /\ nStmts \in 0..MaxStmts
    /\ nVisited = 0
    /\ warnedBefore = FALSE
    /\ status = "running"
    /\ last = NoVisit
    /\ CanonIdle
    /\ EnumIdle

\* NodeVisitor.visit reaches the next ImportFrom node of the tree
Visit ==
    /\ status = "running"
    /\ nVisited < nStmts
    /\ \E node \in ImportFromNodes :
         \E out \in { VisitImportFrom(selfModule, selfTop, selfIgnore,
                                      node, e) : e \in Envs } :
            /\ last' = out
            /\ nVisited' = nVisited + 1
            /\ warnedBefore' = (warnedBefore \/ last.warned # <<>>)
            /\ status' = IF out.raised = "none" THEN "running"
                         ELSE out.raised
    /\ UNCHANGED <<argModule, argIsPkg, selfModule, selfTop, selfIgnore,
                   nStmts, canonVars, enumVars>>

\* visitor.visit(ast) returns: no node is left
Finish ==
    /\ status = "running"
    /\ nVisited = nStmts
    /\ status' = "done"
    /\ UNCHANGED <<argModule, argIsPkg, selfModule, selfTop, selfIgnore,
                   nStmts, nVisited, warnedBefore, last, canonVars, enumVars>>

CheckNext == Visit \/ Finish

SpecCheck == CheckInit /\ [][CheckNext]_vars

-----------------------------------------------------------------------------
(* Claims about visit_ImportFrom, stated on the last call *)

\* the value alias i of the last call resolved to: the attribute, or the
\* submodule object imported in its place
ResolvedKind == IF last.attr.has THEN last.attr.kind ELSE "module"

\* the canonical path of the resolved value's declared defining module
CanonicalOfResolved == GetModuleShouldImport(selfModule, last.attr.defmod)

WarningsFor(i) ==
    { k \in 1..Len(last.warned) : last.warned[k].alias = i }

\* the non-wildcard aliases the last call resolved in a loaded module
ResolvedAliases ==
    IF nVisited > 0 /\ last.load = "ok"
    THEN { i \in 1..last.nproc : last.names[i] # Star }
    ELSE {}

\* the last statement's module lies in the package under analysis: its first
\* dotted component is the checker's top-level module
StatementInPackage ==
    /\ selfTop # <<>>
    /\ last.resolved
    /\ Split(last.m)[1] = selfTop

\* C1 (as amended): for every non-wildcard alias of an in-scope statement
\* whose module loads, a class or callable value is warned about exactly when
\* the module imported from differs from the canonical path of the value's
\* defining module, and the warning names that canonical path; any other
\* value is never warned about.  Importing from the defining module itself is
\* silent exactly when the defining module is its own canonical path.
C1_WarnIffNotCanonical ==
    \A i \in ResolvedAliases :
        IF ResolvedKind \in {"class", "callable"}
        THEN /\ (WarningsFor(i) # {}) <=> (last.m # CanonicalOfResolved)
             /\ \A k \in WarningsFor(i) :
                    /\ last.warned[k].should = CanonicalOfResolved
                    /\ last.warned[k].from = last.m
                    /\ last.warned[k].name = last.names[i]
             /\ last.m = last.attr.defmod =>
                    ((WarningsFor(i) = {})
                        <=> (CanonicalOfResolved = last.attr.defmod))
        ELSE WarningsFor(i) = {}

\* a class imported from a re-exporting module was warned about, and the
\* same class imported from its canonical path was not
C1_Witness ==
    /\ ResolvedAliases # {}
    /\ StatementInPackage
    /\ last.attr.has
    /\ last.attr.kind = "class"
    /\ last.m # last.attr.defmod
    /\ last.warned # <<>>
    /\ last.names = <<NameX, Star>>

\* C1 (as claimed), for the statements whose module lies in the analysed
\* package: the above, and in particular a class imported from exactly its
\* defining module is never warned about, and one imported from any other
\* module is warned about with the defining module named.
C1_AsClaimed ==
    \A i \in { j \in ResolvedAliases : StatementInPackage } :
        IF ResolvedKind \in {"class", "callable"}
        THEN /\ (WarningsFor(i) # {}) <=> (last.m # CanonicalOfResolved)
             /\ \A k \in WarningsFor(i) :
                    last.warned[k].should = CanonicalOfResolved
             /\ (ResolvedKind = "class" /\ last.m = last.attr.defmod)
                    => WarningsFor(i) = {}
             /\ (ResolvedKind = "class" /\ last.m # last.attr.defmod)
                    => /\ WarningsFor(i) # {}
                       /\ \A k \in WarningsFor(i) :
                              last.warned[k].should = last.attr.defmod
        ELSE WarningsFor(i) = {}

\* C5: a node of relative level 2 or more raises ValueError whatever its
\* module, aliases and the ignore list are, with no module loaded and no
\* warning logged for it, and once the error is raised nothing more is
\* visited.
C5_ParentRelativeRaises ==
    [][ /\ (nVisited' = nVisited + 1 /\ last'.level >= 2)
            => /\ status' = "ValueError"
               /\ last'.raised = "ValueError"
               /\ last'.load = "none"
               /\ last'.warned = <<>>
               /\ last'.nproc = 0
        /\ status = "ValueError" => UNCHANGED checkVars ]_vars

\* a parent-relative node with a wildcard alias, under an ignore list, with
\* a node of the tree still unvisited
C5_Witness ==
    /\ nVisited >= 1
    /\ last.level >= 2
    /\ status = "ValueError"
    /\ Star \in { last.names[i] : i \in 1..Len(last.names) }
    /\ selfIgnore.given
    /\ nStmts > nVisited

IsPrefixOfSome(entries, name) ==
    \E k \in 1..Len(entries) :
        /\ Len(entries[k]) <= Len(name)
        /\ \A j \in 1..Len(entries[k]) : entries[k][j] = name[j]

C8_OutOfScopeSkipped ==
    (/\ nVisited > 0
     /\ last.resolved
     /\ Split(last.m)[1] # selfTop) =>
        /\ last.load = "none"
        /\ last.warned = <<>>
        /\ last.raised = "none"

-----------------------------------------------------------------------------
(* _recurse_modules and the module tree it reads *)

Tests == <<"t", "e", "s", "t", "s">>
InitPy == <<"_", "_", "i", "n", "i", "t", "_", "_", ".", "p", "y">>
DotPy == <<".", "p", "y">>

\* str.endswith(suffix)
EndsWith(s, suffix) ==
    /\ Len(suffix) <= Len(s)
    /\ SubSeq(s, Len(s) - Len(suffix) + 1, Len(s)) = suffix

\* lines 50-53
IsTestModule(moduleName) ==
    LET components == Split(moduleName) IN
    Len(components) >= 2 /\ components[2] = Tests

\* f"{module_name}.{child.name}"; a top-level name has no parent
ChildName(parent, name) ==
    IF parent = <<>> THEN name ELSE parent \o <<Dot>> \o name

ParentName(moduleName) == Join(AllButLast(Split(moduleName)))

LastComponent(moduleName) ==
    LET components == Split(moduleName) IN components[Len(components)]

\* importlib.util.find_spec(name) at line 66 over the modules on disk t
\* (name -> "pkg" for a directory with __init__.py, "mod" for a .py file):
\* the parent is imported first and must be a package, or the call raises;
\* a name that is not on disk has no spec; the origin is the file found, kept
\* as its directory (the dotted name of the package it lies in) and file name
FindSpec(t, name) ==
    LET parent == ParentName(name) IN
    IF Len(Split(name)) > 1 /\ (parent \notin DOMAIN t \/ t[parent] # "pkg")
    THEN [result |-> "ModuleNotFoundError", dir |-> <<>>, file |-> <<>>]
    ELSE IF name \notin DOMAIN t
    THEN [result |-> "none", dir |-> <<>>, file |-> <<>>]
    ELSE IF t[name] = "pkg"
    THEN [result |-> "spec", dir |-> name, file |-> InitPy]
    ELSE [result |-> "spec", dir |-> parent,
          file |-> LastComponent(name) \o DotPy]

\* a faulty variant: any Python source file counts as a package
IsPackageAnySource(moduleSpec) ==
    moduleSpec.result = "spec" /\ EndsWith(moduleSpec.file, DotPy)

\* lines 56-57
IsPackage(moduleSpec) ==
    moduleSpec.result = "spec" /\ EndsWith(moduleSpec.file, InitPy)

\* the names a directory entry can have, in the order a sorted directory
\* listing gives them
ComponentsInOrder == << <<"a">>, Tests >>

EnumComps == { ComponentsInOrder[i] : i \in 1..Len(ComponentsInOrder) }

RECURSIVE IterModulesFrom(_, _, _)
IterModulesFrom(t, dir, i) ==
    IF i > Len(ComponentsInOrder) THEN <<>>
    ELSE LET full == ChildName(dir, ComponentsInOrder[i])
             rest == IterModulesFrom(t, dir, i + 1)
         IN IF full \in DOMAIN t
            THEN << [name |-> ComponentsInOrder[i],
                     ispkg |-> t[full] = "pkg"] >> \o rest
            ELSE rest

\* pkgutil.iter_modules([path.dirname(module_spec.origin)]) at line 72
IterModules(t, dir) == IterModulesFrom(t, dir, 1)

\* a frame of the generator: at its entry (line 63) or in its loop (line 72)
\* with the children still to come
Frame(name) == [name |-> name, pc |-> "entry", todo |-> <<>>]

Top == stack[Len(stack)]

\* the frame returns: its caller's loop goes on, or the generator is exhausted
Return ==
    /\ stack' = AllButLast(stack)
    /\ estatus' = IF Len(stack) = 1 THEN "done" ELSE "running"

\* lines 63-70: the call of _recurse_modules(module_name, ...)
Enter ==
    /\ estatus = "running"
    /\ Top.pc = "entry"
    /\ IF ignoreTests /\ IsTestModule(Top.name)
       THEN Return /\ UNCHANGED yielded
       ELSE LET moduleSpec == FindSpec(tree, Top.name) IN
            IF moduleSpec.result = "ModuleNotFoundError"
            THEN /\ estatus' = "ModuleNotFoundError"
                 /\ stack' = <<>>
                 /\ UNCHANGED yielded
            ELSE IF moduleSpec.result = "none"
            THEN Return /\ UNCHANGED yielded
            ELSE /\ yielded' = IF ~(packagesOnly /\ ~IsPackage(moduleSpec))
                               THEN Append(yielded, Top.name)
                               ELSE yielded
                 /\ stack' = [stack EXCEPT ![Len(stack)] =
                                [name |-> Top.name, pc |-> "loop",
                                 todo |-> IterModules(tree, moduleSpec.dir)]]
                 /\ estatus' = "running"
    /\ UNCHANGED <<tree, root, ignoreTests, packagesOnly, canonVars,
                   checkVars>>

\* lines 73-78: the next child is a package
ChildPackage ==
    /\ estatus = "running"
    /\ Top.pc = "loop"
    /\ Top.todo # <<>>
    /\ Head(Top.todo).ispkg
    /\ stack' = Append([stack EXCEPT ![Len(stack)].todo = Tail(@)],
                       Frame(ChildName(Top.name, Head(Top.todo).name)))
    /\ UNCHANGED <<tree, root, ignoreTests, packagesOnly, yielded, estatus,
                   canonVars, checkVars>>

\* lines 79-80: the next child is a plain module
ChildModule ==
    /\ estatus = "running"
    /\ Top.pc = "loop"
    /\ Top.todo # <<>>
    /\ ~Head(Top.todo).ispkg
    /\ yielded' = IF ~packagesOnly
                  THEN Append(yielded,
                              ChildName(Top.name, Head(Top.todo).name))
                  ELSE yielded
    /\ stack' = [stack EXCEPT ![Len(stack)].todo = Tail(@)]
    /\ UNCHANGED <<tree, root, ignoreTests, packagesOnly, estatus,
                   canonVars, checkVars>>

\* line 72: no child is left
LoopEnd ==
    /\ estatus = "running"
    /\ Top.pc = "loop"
    /\ Top.todo = <<>>
    /\ Return
    /\ UNCHANGED <<tree, root, ignoreTests, packagesOnly, yielded,
                   canonVars, checkVars>>

-----------------------------------------------------------------------------
(* SpecEnum: list(recurse_modules(root, ignore_tests, packages_only)) *)

ExtendTree(t, name, kind) ==
    [n \in DOMAIN t \cup {name} |-> IF n = name THEN kind ELSE t[n]]

\* where a module can be added: at the top level or in a package
NewNames(t) ==
    { ChildName(parent, c) :
        parent \in {<<>>} \cup { n \in DOMAIN t : t[n] = "pkg" },
        c \in EnumComps } \ DOMAIN t

\* the module trees of at most n modules
RECURSIVE Trees(_)
Trees(n) ==
    IF n = 0 THEN { <<>> }
    ELSE LET smaller == Trees(n - 1) IN
         smaller \cup
         UNION { { ExtendTree(t, name, kind) :
                     name \in NewNames(t), kind \in {"pkg", "mod"} } :
                 t \in smaller }

\* the names asked for: a module on disk, or a name below one or at the top
\* level that may not be there
Roots(t) ==
    DOMAIN t \cup
    { ChildName(parent, c) : parent \in {<<>>} \cup DOMAIN t, c \in EnumComps }

EnumInit ==
    /\ tree \in Trees(MaxNodes)
    /\ root \in Roots(tree)
    /\ ignoreTests \in BOOLEAN
    /\ packagesOnly \in BOOLEAN
    /\ stack = << Frame(root) >>
    /\ yielded = <<>>
    /\ estatus = "running"
    /\ CanonIdle
    /\ CheckIdle

EnumNext == Enter \/ ChildPackage \/ ChildModule \/ LoopEnd

SpecEnum == EnumInit /\ [][EnumNext]_vars

-----------------------------------------------------------------------------
(* Claims about recurse_modules *)

YieldedSet == { yielded[i] : i \in 1..Len(yielded) }

\* name is ancestor, or is below it, in the dotted hierarchy
IsUnder(name, ancestor) ==
    LET nc == Split(name)
        ac == Split(ancestor)
    IN Len(ac) <= Len(nc) /\ \A i \in 1..Len(ac) : nc[i] = ac[i]

\* C2: with ignore_tests set, no module on disk whose second dotted component
\* is "tests" is yielded, package or plain module, for any root at or above
\* it.
C2_TestsNeverYielded ==
    ignoreTests =>
        \A y \in YieldedSet :
            ~ (/\ y \in DOMAIN tree
               /\ IsUnder(y, root)
               /\ Len(Split(y)) >= 2
               /\ Split(y)[2] = Tests)

\* the packages at or below the root: below a root that is itself a package
PackagesUnder(r) ==
    IF r \in DOMAIN tree /\ tree[r] = "pkg"
    THEN { n \in DOMAIN tree : tree[n] = "pkg" /\ IsUnder(n, r) }
    ELSE {}

C4_OnlyRealModules ==
    (~ignoreTests /\ ~packagesOnly /\ root \in DOMAIN tree) =>
        /\ \A y \in YieldedSet : y \in DOMAIN tree /\ IsUnder(y, root)
        /\ \A i, j \in 1..Len(yielded) : yielded[i] = yielded[j] => i = j
        /\ (/\ estatus = "done"
            /\ ~ \E n \in DOMAIN tree : n # root /\ IsUnder(n, root))
              => yielded = <<root>>

-----------------------------------------------------------------------------
(* SpecCanon: _get_module_should_import on every pair of names *)

\* name components the canonical-path check is run on: public, public with a
\* public sibling as a string prefix, private
CanonComps == { <<"p">>, <<"p", "q">>, <<"_", "q">> }

\* the component lists of 1..n components
RECURSIVE CompLists(_)
CompLists(n) ==
    IF n = 0 THEN {}
    ELSE LET shorter == CompLists(n - 1) IN
         { <<c>> : c \in CanonComps }
           \cup shorter
           \cup { Append(l, c) : l \in shorter, c \in CanonComps }

CanonNames == { Join(l) : l \in CompLists(MaxComps) }

CanonInit ==
    \* _module is "" for a top-level module that is not a package (line 94)
    /\ cModule \in CanonNames \cup {<<>>}
    /\ cArg \in CanonNames
    /\ cOnce = <<>>
    /\ cTwice = <<>>
    /\ cpc = 0
    /\ CheckIdle
    /\ EnumIdle

\* should_import_from = self._get_module_should_import(attribute_module)
CanonFirst ==
    /\ cpc = 0
    /\ cOnce' = GetModuleShouldImport(cModule, cArg)
    /\ cpc' = 1
    /\ UNCHANGED <<cModule, cArg, cTwice, checkVars, enumVars>>

\* the same call on its own result
CanonSecond ==
    /\ cpc = 1
    /\ cTwice' = GetModuleShouldImport(cModule, cOnce)
    /\ cpc' = 2
    /\ UNCHANGED <<cModule, cArg, cOnce, checkVars, enumVars>>

CanonNext == CanonFirst \/ CanonSecond

SpecCanon == CanonInit /\ [][CanonNext]_vars

IsPrivate(component) == StartsWith(component, <<Underscore>>)

\* a is a component-wise prefix of b
IsCompPrefix(a, b) == Len(a) <= Len(b) /\ SubSeq(b, 1, Len(a)) = a

\* index of the first private component, or 0
RECURSIVE FirstPrivate(_, _)
FirstPrivate(comps, i) ==
    IF i > Len(comps) THEN 0
    ELSE IF IsPrivate(comps[i]) THEN i
    ELSE FirstPrivate(comps, i + 1)

\* C9: the canonical path keeps a private component only when the working
\* module is nested inside that private submodule (the path up to and
\* including the private component is a component-wise prefix of the working
\* module); for every other importer the result is the defining module cut
\* before its first private component.
C9_PrivateOnlyForInsiders ==
    cpc >= 1 =>
        LET rc == Split(cOnce)
            dc == Split(cArg)
            wc == Split(cModule)
            k  == FirstPrivate(dc, 1)
        IN /\ \A i \in 1..Len(rc) :
                 IsPrivate(rc[i]) => IsCompPrefix(SubSeq(rc, 1, i), wc)
           /\ (k > 0 /\ ~IsCompPrefix(SubSeq(dc, 1, k), wc))
                 => cOnce = Join(SubSeq(dc, 1, k - 1))

\* C10: the canonical path of a canonical path is that same path.
C10_Idempotent ==
    cpc = 2 => cTwice = cOnce

\* a truncated, non-empty canonical path was fed back
C10_Witness ==
    /\ cpc = 2
    /\ cOnce # cArg
    /\ cOnce # <<>>
    /\ \E i \in 1..Len(Split(cArg)) : IsPrivate(Split(cArg)[i])

=============================================================================
